---- MODULE Spec2Model ----
(***************************************************************************)
(* Notes data store (store.js): a localStorage slot holding the JSON text  *)
(* of { notes: [...] }, the normalizer, and the CRUD operations on it.     *)
(*                                                                         *)
(* JavaScript values are tagged records [t, v]:                            *)
(*   undefined, null, boolean, number, string (v = sequence of characters),*)
(*   date (the ISO-8601 string of instant v, as made by toISOString),      *)
(*   array (v = sequence of values), object (v = function on its keys).    *)
(* The content of the storage slot is null (no item) or a text:            *)
(*   json (the serialization of the JSON value v), garbage (a non-empty    *)
(*   text that is not JSON), empty (the empty text).                       *)
(***************************************************************************)
EXTENDS Integers, Sequences, FiniteSets, TLC

VARIABLES slot, now, uidCount, last, state, dom, timers, burst

vars == <<slot, now, uidCount, last, state, dom, timers, burst>>

\* The application on top of the store: the state object of initApp, the
\* values of its input elements, the timeouts of the event loop, and the
\* calls of a debounced function since fn last ran.
app == <<state, dom, timers, burst>>

(* ------------------------------ bounds --------------------------------- *)
MaxNotes == 2
MaxFew == 1
MaxSlotNotes == 1
MaxTags == 2
MaxClock == 2
MaxUid == 3
MaxWait == 2
MaxCalls == 3
MaxTime == 4

(* ------------------------------ values --------------------------------- *)
Undef == [t |-> "undefined", v |-> 0]
Null == [t |-> "null", v |-> 0]
Bool(b) == [t |-> "boolean", v |-> b]
Num(n) == [t |-> "number", v |-> n]
Str(s) == [t |-> "string", v |-> s]
Date(n) == [t |-> "date", v |-> n]
Arr(s) == [t |-> "array", v |-> s]
Obj(f) == [t |-> "object", v |-> f]

JsonText(j) == [t |-> "json", v |-> j]
GarbageText == [t |-> "garbage", v |-> 0]
EmptyText == [t |-> "empty", v |-> 0]

IsString(x) == x.t \in {"string", "date"}
IsArray(x) == x.t = "array"

\* JavaScript truthiness (the operand of !, || and of Boolean()).
Truthy(x) ==
  CASE x.t \in {"undefined", "null", "empty"} -> FALSE
    [] x.t = "boolean" -> x.v
    [] x.t = "number" -> x.v # 0
    [] x.t = "string" -> x.v # <<>>
    [] OTHER -> TRUE

\* Property read o.k on a value that is neither null nor undefined.
Prop(o, k) == IF o.t = "object" /\ k \in DOMAIN o.v THEN o.v[k] ELSE Undef

\* Object spread { ...a, ...b } on the key functions of two objects.
Spread(a, b) ==
  [k \in (DOMAIN a) \cup (DOMAIN b) |-> IF k \in DOMAIN b THEN b[k] ELSE a[k]]

(* ------------------------------ strings -------------------------------- *)
WhiteSpace == {" "}

RECURSIVE TrimStart(_)
TrimStart(s) ==
  IF s # <<>> /\ Head(s) \in WhiteSpace THEN TrimStart(Tail(s)) ELSE s

RECURSIVE TrimEnd(_)
TrimEnd(s) ==
  IF s # <<>> /\ s[Len(s)] \in WhiteSpace
  THEN TrimEnd(SubSeq(s, 1, Len(s) - 1))
  ELSE s

\* String.prototype.trim
Trim(s) == TrimEnd(TrimStart(s))

\* String(x) for the primitive values.
ToStr(x) ==
  CASE x.t = "string" -> x.v
    [] x.t = "number" -> <<ToString(x.v)>>
    [] x.t = "boolean" -> IF x.v THEN <<"t", "r", "u", "e">>
                                 ELSE <<"f", "a", "l", "s", "e">>
    [] x.t = "null" -> <<"n", "u", "l", "l">>
    [] OTHER -> <<"u", "n", "d", "e", "f", "i", "n", "e", "d">>

\* [...new Set(s)]: the distinct elements of s in first-insertion order.
RECURSIVE SetOrder(_)
SetOrder(s) ==
  IF s = <<>> THEN <<>>
  ELSE LET r == SetOrder(SubSeq(s, 1, Len(s) - 1))
           x == s[Len(s)]
       IN IF \E i \in 1..Len(r) : r[i] = x THEN r ELSE Append(r, x)

(* ------------------------------ JSON ----------------------------------- *)
\* The JSON value that JSON.stringify writes for x: a key whose value is
\* undefined is left out of an object, an undefined array element is null.
RECURSIVE ToJSON(_)
ToJSON(x) ==
  CASE x.t = "array" ->
         Arr([i \in 1..Len(x.v) |->
                IF x.v[i].t = "undefined" THEN Null ELSE ToJSON(x.v[i])])
    [] x.t = "object" ->
         Obj([k \in {q \in DOMAIN x.v : x.v[q].t # "undefined"} |-> ToJSON(x.v[k])])
    [] OTHER -> x

JSONStringify(x) == JsonText(ToJSON(x))

\* JSON.parse: a SyntaxError on a text that is not JSON.
JSONParse(raw) ==
  IF raw.t = "json" THEN [raised |-> FALSE, value |-> raw.v]
  ELSE [raised |-> TRUE, value |-> Undef]

(* ------------------------------ persistence ---------------------------- *)
EmptyStore == Obj([notes |-> Arr(<<>>)])

\* readStore testing parsed.notes for truthiness instead of Array.isArray.
readStoreTruthyNotes(raw) ==
  IF ~Truthy(raw) THEN EmptyStore
  ELSE LET p == JSONParse(raw)
       IN IF p.raised THEN EmptyStore
          ELSE IF ~Truthy(p.value) \/ ~Truthy(Prop(p.value, "notes"))
               THEN EmptyStore
               ELSE p.value

readStore(raw) ==
  IF ~Truthy(raw) THEN EmptyStore
  ELSE LET p == JSONParse(raw)
       IN IF p.raised THEN EmptyStore
          ELSE IF ~Truthy(p.value) \/ ~IsArray(Prop(p.value, "notes"))
               THEN EmptyStore
               ELSE p.value

\* writeStore serializing the notes array without the envelope around it.
writeStoreBare(store) ==
  JSONStringify(IF IsArray(Prop(store, "notes")) THEN Prop(store, "notes") ELSE Arr(<<>>))

writeStore(store) ==
  JSONStringify(Obj([notes |-> IF IsArray(Prop(store, "notes"))
                               THEN Prop(store, "notes")
                               ELSE Arr(<<>>)]))

\* The notes the store operations iterate over (store.notes of readStore).
Notes(raw) ==
  LET notes == Prop(readStore(raw), "notes")
  IN IF IsArray(notes) THEN notes.v ELSE <<>>

\* store.notes has no push, find, findIndex or filter method: a TypeError.
NoNotes(raw) == ~IsArray(Prop(readStore(raw), "notes"))

(* ------------------------------ normalizer ----------------------------- *)
uid(k) == Str(<<"u", ToString(k)>>)

Raise == [raised |-> TRUE, value |-> Undef]
Return(x) == [raised |-> FALSE, value |-> x]

\* The tags of normalizeNote without the trim of each element.
NormTagsNoTrim(tags) ==
  IF IsArray(tags)
  THEN LET strs == [i \in 1..Len(tags.v) |-> Str(ToStr(tags.v[i]))]
       IN Arr(SetOrder(SelectSeq(strs, Truthy)))
  ELSE Arr(<<>>)

NormTags(tags) ==
  IF IsArray(tags)
  THEN LET trimmed == [i \in 1..Len(tags.v) |-> Str(Trim(ToStr(tags.v[i])))]
       IN Arr(SetOrder(SelectSeq(trimmed, Truthy)))
  ELSE Arr(<<>>)

\* normalizeNote stamping updatedAt with the clock on every call.
normalizeNoteStampsNow(n, nowv, fresh) ==
  LET title == Prop(n, "title")
  IN IF Truthy(title) /\ ~IsString(title) THEN Raise
     ELSE Return(Obj([
            id |-> IF Truthy(Prop(n, "id")) THEN Prop(n, "id") ELSE fresh,
            title |-> IF title.t = "string" THEN Str(Trim(title.v))
                      ELSE IF Truthy(title) THEN title ELSE Str(<<>>),
            content |-> IF Truthy(Prop(n, "content")) THEN Prop(n, "content")
                        ELSE Str(<<>>),
            tags |-> NormTags(Prop(n, "tags")),
            favorite |-> Bool(Truthy(Prop(n, "favorite"))),
            createdAt |-> IF Truthy(Prop(n, "createdAt")) THEN Prop(n, "createdAt")
                          ELSE Date(nowv),
            updatedAt |-> Date(nowv)]))

\* normalizeNote(n) at clock reading nowv, with uid() returning fresh.
\* (n.title || '').trim() is a TypeError when n.title is truthy and has no
\* trim method (a number, a boolean, an array, an object).
normalizeNote(n, nowv, fresh) ==
  LET title == Prop(n, "title")
  IN IF Truthy(title) /\ ~IsString(title) THEN Raise
     ELSE Return(Obj([
            id |-> IF Truthy(Prop(n, "id")) THEN Prop(n, "id") ELSE fresh,
            title |-> IF title.t = "string" THEN Str(Trim(title.v))
                      ELSE IF Truthy(title) THEN title ELSE Str(<<>>),
            content |-> IF Truthy(Prop(n, "content")) THEN Prop(n, "content")
                        ELSE Str(<<>>),
            tags |-> NormTags(Prop(n, "tags")),
            favorite |-> Bool(Truthy(Prop(n, "favorite"))),
            createdAt |-> IF Truthy(Prop(n, "createdAt")) THEN Prop(n, "createdAt")
                          ELSE Date(nowv),
            updatedAt |-> IF Truthy(Prop(n, "updatedAt")) THEN Prop(n, "updatedAt")
                          ELSE Date(nowv)]))

(* ------------------------------ store operations ----------------------- *)
\* a === b for the values of this model: primitives by value, arrays and
\* objects by reference (a parsed element is never the caller's object).
StrictEq(a, b) == a.t \notin {"array", "object"} /\ a = b

\* Reading n.id is a TypeError when n is null or undefined.
Nullish(x) == x.t \in {"null", "undefined"}

\* The key function that { ...x } copies.
Own(x) == IF x.t = "object" THEN x.v ELSE <<>>

\* notes.findIndex((n) => n.id === id) from position i on:
\* the index, 0 for "none" (-1 in the source), -1 for a TypeError.
RECURSIVE FindIndex(_, _, _)
FindIndex(s, id, i) ==
  IF i > Len(s) THEN 0
  ELSE IF Nullish(s[i]) THEN -1
  ELSE IF StrictEq(Prop(s[i], "id"), id) THEN i
  ELSE FindIndex(s, id, i + 1)

Outcome(raw, ret) == [slot |-> raw, raised |-> FALSE, ret |-> ret]
Thrown(raw) == [slot |-> raw, raised |-> TRUE, ret |-> Undef]

createNote(raw, initial, nowv, fresh) ==
  LET n == normalizeNote(initial, nowv, fresh)
  IN IF n.raised \/ NoNotes(raw) THEN Thrown(raw)
     ELSE LET store == readStore(raw)
              pushed == Obj([store.v EXCEPT !.notes = Arr(Append(@.v, n.value))])
          IN Outcome(writeStore(pushed), n.value)

getNote(raw, id) ==
  LET s == Prop(readStore(raw), "notes").v
      idx == FindIndex(s, id, 1)
  IN IF NoNotes(raw) \/ idx = -1 THEN Thrown(raw)
     ELSE Outcome(raw, IF idx = 0 THEN Undef ELSE s[idx])

\* updateNote with the caller's fields spread after the forced id and updatedAt.
updateNoteFieldsLast(raw, id, fields, nowv, fresh) ==
  LET store == readStore(raw)
      s == Prop(store, "notes").v
      idx == FindIndex(s, id, 1)
  IN IF NoNotes(raw) \/ idx = -1 THEN Thrown(raw)
     ELSE IF idx = 0 THEN Outcome(raw, Undef)
     ELSE LET merged ==
                normalizeNote(
                  Obj(Spread(Spread(Own(s[idx]),
                                    [id |-> id, updatedAt |-> Date(nowv)]),
                             Own(fields))),
                  nowv, fresh)
          IN IF merged.raised THEN Thrown(raw)
             ELSE Outcome(
                    writeStore(Obj([store.v EXCEPT
                                      !.notes = Arr([@.v EXCEPT ![idx] = merged.value])])),
                    merged.value)

updateNote(raw, id, fields, nowv, fresh) ==
  LET store == readStore(raw)
      s == Prop(store, "notes").v
      idx == FindIndex(s, id, 1)
  IN IF NoNotes(raw) \/ idx = -1 THEN Thrown(raw)
     ELSE IF idx = 0 THEN Outcome(raw, Undef)
     ELSE LET merged ==
                normalizeNote(
                  Obj(Spread(Spread(Own(s[idx]), Own(fields)),
                             [id |-> id, updatedAt |-> Date(nowv)])),
                  nowv, fresh)
          IN IF merged.raised THEN Thrown(raw)
             ELSE Outcome(
                    writeStore(Obj([store.v EXCEPT
                                      !.notes = Arr([@.v EXCEPT ![idx] = merged.value])])),
                    merged.value)

\* deleteNote removing the first match only (splice at findIndex).
deleteNoteFirstOnly(raw, id) ==
  LET store == readStore(raw)
      s == Prop(store, "notes").v
      idx == FindIndex(s, id, 1)
  IN IF NoNotes(raw) \/ idx = -1 THEN Thrown(raw)
     ELSE IF idx = 0 THEN Outcome(writeStore(store), Bool(FALSE))
     ELSE Outcome(
            writeStore(Obj([store.v EXCEPT
                              !.notes = Arr(SubSeq(s, 1, idx - 1) \o
                                            SubSeq(s, idx + 1, Len(s)))])),
            Bool(TRUE))

\* deleteNote keeping the notes of the id and removing the others.
deleteNoteInverted(raw, id) ==
  LET store == readStore(raw)
      s == Prop(store, "notes").v
      keep(n) == StrictEq(Prop(n, "id"), id)
  IN IF NoNotes(raw) \/ \E i \in 1..Len(s) : Nullish(s[i]) THEN Thrown(raw)
     ELSE LET kept == SelectSeq(s, keep)
          IN Outcome(writeStore(Obj([store.v EXCEPT !.notes = Arr(kept)])),
                     Bool(Len(kept) < Len(s)))

\* deleteNote comparing the lengths with <= instead of <.
deleteNoteLeq(raw, id) ==
  LET store == readStore(raw)
      s == Prop(store, "notes").v
      keep(n) == ~StrictEq(Prop(n, "id"), id)
  IN IF NoNotes(raw) \/ \E i \in 1..Len(s) : Nullish(s[i]) THEN Thrown(raw)
     ELSE LET kept == SelectSeq(s, keep)
          IN Outcome(writeStore(Obj([store.v EXCEPT !.notes = Arr(kept)])),
                     Bool(Len(kept) <= Len(s)))

deleteNote(raw, id) ==
  LET store == readStore(raw)
      s == Prop(store, "notes").v
      keep(n) == ~StrictEq(Prop(n, "id"), id)
  IN IF NoNotes(raw) \/ \E i \in 1..Len(s) : Nullish(s[i]) THEN Thrown(raw)
     ELSE LET kept == SelectSeq(s, keep)
          IN Outcome(writeStore(Obj([store.v EXCEPT !.notes = Arr(kept)])),
                     Bool(Len(kept) < Len(s)))

\* toggleFavorite setting favorite instead of negating it.
toggleFavoriteSetsTrue(raw, id, nowv, fresh) ==
  LET note == getNote(raw, id)
  IN IF note.raised THEN Thrown(raw)
     ELSE IF ~Truthy(note.ret) THEN Outcome(raw, Undef)
     ELSE updateNote(raw, id, Obj([favorite |-> Bool(TRUE)]), nowv, fresh)

toggleFavorite(raw, id, nowv, fresh) ==
  LET note == getNote(raw, id)
  IN IF note.raised THEN Thrown(raw)
     ELSE IF ~Truthy(note.ret) THEN Outcome(raw, Undef)
     ELSE updateNote(raw, id,
                     Obj([favorite |-> Bool(~Truthy(Prop(note.ret, "favorite")))]),
                     nowv, fresh)

(* ------------------------------ listing -------------------------------- *)
\* The lower-case letter of each upper-case letter.
LowerOf ==
  ("A" :> "a") @@ ("B" :> "b") @@ ("C" :> "c") @@ ("D" :> "d") @@
  ("E" :> "e") @@ ("F" :> "f") @@ ("G" :> "g") @@ ("H" :> "h") @@
  ("I" :> "i") @@ ("J" :> "j") @@ ("K" :> "k") @@ ("L" :> "l") @@
  ("M" :> "m") @@ ("N" :> "n") @@ ("O" :> "o") @@ ("P" :> "p") @@
  ("Q" :> "q") @@ ("R" :> "r") @@ ("S" :> "s") @@ ("T" :> "t") @@
  ("U" :> "u") @@ ("V" :> "v") @@ ("W" :> "w") @@ ("X" :> "x") @@
  ("Y" :> "y") @@ ("Z" :> "z")

ToLowerChar(c) == IF c \in DOMAIN LowerOf THEN LowerOf[c] ELSE c

\* String.prototype.toLowerCase
ToLower(s) == [i \in 1..Len(s) |-> ToLowerChar(s[i])]

\* String.prototype.includes
Includes(s, q) ==
  \/ q = <<>>
  \/ \E i \in 1..(Len(s) - Len(q) + 1) : SubSeq(s, i, i + Len(q) - 1) = q

\* The letters in collation order.
Letters ==
  << "a", "b", "c", "d", "e", "f", "g", "h", "i", "j", "k", "l", "m",
    "n", "o", "p", "q", "r", "s", "t", "u", "v", "w", "x", "y", "z" >>

\* The rank of each letter: its position after the ranks below.
LetterRank ==
  [c \in {Letters[i] : i \in 1..Len(Letters)} |->
     10 + (CHOOSE i \in 1..Len(Letters) : Letters[i] = c)]

\* Collation rank of a character: white space, then digits and the rest,
\* then the letters.
CharRank(c) ==
  CASE c \in WhiteSpace -> 0
    [] c \in DOMAIN LetterRank -> LetterRank[c]
    [] OTHER -> 5

RECURSIVE LexLess(_, _)
LexLess(s, r) ==
  IF r = <<>> THEN FALSE
  ELSE IF s = <<>> THEN TRUE
  ELSE IF CharRank(Head(s)) # CharRank(Head(r)) THEN CharRank(Head(s)) < CharRank(Head(r))
  ELSE LexLess(Tail(s), Tail(r))

\* Position of the first character where s and r differ, 0 if none.
FirstDiff(s, r) ==
  IF \E i \in 1..Len(s) : s[i] # r[i]
  THEN CHOOSE i \in 1..Len(s) : s[i] # r[i] /\ \A j \in 1..(i - 1) : s[j] = r[j]
  ELSE 0

\* s.localeCompare(r) as -1, 0, 1: letters compared without case first,
\* lower case before upper case between strings that differ in case only.
LocaleCompare(s, r) ==
  IF LexLess(ToLower(s), ToLower(r)) THEN -1
  ELSE IF LexLess(ToLower(r), ToLower(s)) THEN 1
  ELSE IF s = r THEN 0
  ELSE IF s[FirstDiff(s, r)] = ToLowerChar(s[FirstDiff(s, r)]) THEN -1 ELSE 1

NaN == [nan |-> TRUE, ms |-> 0]
Ms(n) == [nan |-> FALSE, ms |-> n]

\* new Date(d).getTime()
GetTime(d) ==
  CASE d.t \in {"date", "number"} -> Ms(d.v)
    [] d.t = "null" -> Ms(0)
    [] d.t = "boolean" -> Ms(IF d.v THEN 1 ELSE 0)
    [] OTHER -> NaN

\* The comparator of sortNotes on (a, b): the sign of its result, with a
\* NaN result read as 0 the way Array.prototype.sort reads it; raised
\* for the TypeError of a property read on null or of localeCompare on a
\* title that is no string.
SortCompare(a, b) ==
  IF Nullish(a) \/ Nullish(b) THEN [raised |-> TRUE, sign |-> 0]
  ELSE LET ta == GetTime(Prop(a, "updatedAt"))
           tb == GetTime(Prop(b, "updatedAt"))
       IN IF ta.nan \/ tb.nan THEN [raised |-> FALSE, sign |-> 0]
          ELSE IF tb.ms # ta.ms
               THEN [raised |-> FALSE, sign |-> IF tb.ms > ta.ms THEN 1 ELSE -1]
          ELSE IF Truthy(Prop(a, "title")) /\ ~IsString(Prop(a, "title"))
               THEN [raised |-> TRUE, sign |-> 0]
          ELSE [raised |-> FALSE,
                sign |-> LocaleCompare(
                           IF Truthy(Prop(a, "title")) THEN ToStr(Prop(a, "title")) ELSE <<>>,
                           IF Truthy(Prop(b, "title")) THEN ToStr(Prop(b, "title")) ELSE <<>>)]

\* One insertion of a stable insertion sort: x goes after the last element
\* of the sorted r that does not compare greater than x.
RECURSIVE InsertSorted(_, _, _)
InsertSorted(r, x, j) ==
  IF j = 0 THEN <<x>> \o r
  ELSE IF SortCompare(r[j], x).sign > 0 THEN InsertSorted(r, x, j - 1)
  ELSE SubSeq(r, 1, j) \o <<x>> \o SubSeq(r, j + 1, Len(r))

\* [...notes].sort(comparator), as a stable insertion sort.
RECURSIVE sortNotes(_)
sortNotes(s) ==
  IF s = <<>> THEN <<>>
  ELSE LET r == sortNotes(SubSeq(s, 1, Len(s) - 1))
       IN InsertSorted(r, s[Len(s)], Len(r))

\* The comparator raises on some pair of the sort.
SortRaises(s) ==
  \E i, j \in 1..Len(s) : i # j /\ SortCompare(s[i], s[j]).raised

\* n.tags.some((x) => x.toLowerCase() === t): FALSE, TRUE, or "raised"
\* (n is null, n.tags has no some method, an element has no toLowerCase).
RECURSIVE SomeTag(_, _, _)
SomeTag(tags, t, i) ==
  IF i > Len(tags) THEN "false"
  ELSE IF tags[i].t # "string" THEN "raised"
  ELSE IF ToLower(tags[i].v) = t THEN "true"
  ELSE SomeTag(tags, t, i + 1)

HasTag(n, t) ==
  IF Nullish(n) \/ ~IsArray(Prop(n, "tags")) THEN "raised"
  ELSE SomeTag(Prop(n, "tags").v, t, 1)

\* (n.title || '').toLowerCase() and the same on content raise on a
\* truthy value that is no string.
TextRaises(n) ==
  \/ Nullish(n)
  \/ \E k \in {"title", "content"} : Truthy(Prop(n, k)) /\ Prop(n, k).t # "string"

LowerText(n, k) == IF Truthy(Prop(n, k)) THEN ToLower(Prop(n, k).v) ELSE <<>>

\* The query filter looking at the title only.
MatchesQueryTitleOnly(n, q) == Includes(LowerText(n, "title"), q)

MatchesQuery(n, q) == Includes(LowerText(n, "title"), q) \/ Includes(LowerText(n, "content"), q)

listNotes(raw, options) ==
  LET all == Notes(raw)
      favorites == Prop(options, "favorites")
      tag == Prop(options, "tag")
      query == Prop(options, "query")
      isFav(n) == Truthy(Prop(n, "favorite"))
      out1 == IF Truthy(favorites) THEN SelectSeq(all, isFav) ELSE all
      raise1 == Truthy(favorites) /\ \E i \in 1..Len(all) : Nullish(all[i])
      t == ToLower(Trim(ToStr(tag)))
      tagged(n) == HasTag(n, t) = "true"
      out2 == IF Truthy(tag) THEN SelectSeq(out1, tagged) ELSE out1
      raise2 == Truthy(tag) /\ \E i \in 1..Len(out1) : HasTag(out1[i], t) = "raised"
      raise3a == Truthy(query) /\ query.t # "string"
      useQuery == Truthy(query) /\ Trim(query.v) # <<>>
      q == ToLower(Trim(query.v))
      matches(n) == MatchesQuery(n, q)
      out3 == IF useQuery THEN SelectSeq(out2, matches) ELSE out2
      raise3 == useQuery /\ \E i \in 1..Len(out2) : TextRaises(out2[i])
  IN IF NoNotes(raw) \/ raise1 THEN Thrown(raw)
     ELSE IF raise2 THEN Thrown(raw)
     ELSE IF raise3a THEN Thrown(raw)
     ELSE IF raise3 THEN Thrown(raw)
     ELSE IF SortRaises(out3) THEN Thrown(raw)
     ELSE Outcome(raw, Arr(sortNotes(out3)))

\* for (const t of n.tags || []): the values iterated, for a note that
\* does not raise.
TagItems(n) ==
  LET tg == Prop(n, "tags")
  IN IF ~Truthy(tg) THEN <<>>
     ELSE IF tg.t = "string" THEN [i \in 1..Len(tg.v) |-> Str(<<tg.v[i]>>)]
     ELSE tg.v

\* The loop body raises: n is null, n.tags is truthy and not iterable, or
\* an element has no trim method.
TagsRaise(n) ==
  \/ Nullish(n)
  \/ Truthy(Prop(n, "tags")) /\ Prop(n, "tags").t \notin {"array", "string"}
  \/ \E i \in 1..Len(TagItems(n)) : TagItems(n)[i].t # "string"

\* The trimmed non-empty tags met by the two loops, in the order met.
RECURSIVE TagKeys(_)
TagKeys(s) ==
  IF s = <<>> THEN <<>>
  ELSE LET items == TagItems(s[Len(s)])
           keys == [i \in 1..Len(items) |-> Str(Trim(items[i].v))]
       IN TagKeys(SubSeq(s, 1, Len(s) - 1)) \o SelectSeq(keys, Truthy)

RECURSIVE InsertTag(_, _, _)
InsertTag(r, x, j) ==
  IF j = 0 THEN <<x>> \o r
  ELSE IF LocaleCompare(Prop(r[j], "tag").v, Prop(x, "tag").v) > 0
       THEN InsertTag(r, x, j - 1)
  ELSE SubSeq(r, 1, j) \o <<x>> \o SubSeq(r, j + 1, Len(r))

\* The entries left in the order the loops met them.
SortTagsKeepOrder(s) == s

RECURSIVE SortTags(_)
SortTags(s) ==
  IF s = <<>> THEN <<>>
  ELSE LET r == SortTags(SubSeq(s, 1, Len(s) - 1))
       IN InsertTag(r, s[Len(s)], Len(r))

listTags(raw) ==
  LET all == Notes(raw)
  IN IF NoNotes(raw) \/ \E i \in 1..Len(all) : TagsRaise(all[i]) THEN Thrown(raw)
     ELSE LET keys == TagKeys(all)
              distinct == SetOrder(keys)
              count(k) == Cardinality({i \in 1..Len(keys) : keys[i] = k})
              entries == [i \in 1..Len(distinct) |->
                            Obj([tag |-> distinct[i], count |-> Num(count(distinct[i]))])]
          IN Outcome(raw, Arr(SortTags(entries)))

(* ------------------------------ timers and debounce -------------------- *)
\* The default wait of debounce, in ms; one tick of the clock `now` is this
\* long.
DefaultWait == 250
TitleWait == 250
ContentWait == 250
SearchWait == 150

\* The ticks after which a timeout of ms milliseconds is due.
Ticks(ms) == (ms + DefaultWait - 1) \div DefaultWait

\* The functions that debounce wraps: the three input handlers of initApp,
\* and fn, any function.
DebouncedFns == {"search", "title", "content", "fn"}

\* No timeout pending; the variable t of each closure undefined (0); each
\* closure's wait.
NoTimers ==
  [ pending |-> {},
    t |-> [f \in DebouncedFns |-> 0],
    wait |-> [f \in DebouncedFns |->
                CASE f = "search" -> SearchWait
                  [] f = "title" -> TitleWait
                  [] f = "content" -> ContentWait
                  [] OTHER -> DefaultWait] ]

\* A handle is free when no pending timeout has it and no closure holds it.
FreeHandle(tm, h) ==
  /\ \A p \in tm.pending : p.id # h
  /\ \A f \in DebouncedFns : tm.t[f] # h

\* The handle setTimeout returns: the least free one.
NextHandle(tm) ==
  CHOOSE h \in 1..(Cardinality(tm.pending) + Cardinality(DebouncedFns) + 1) :
    FreeHandle(tm, h) /\ \A g \in 1..(h - 1) : ~FreeHandle(tm, g)

\* setTimeout(() => fn(...args), wait) at clock reading nowv.
setTimeout(tm, f, args, wait, nowv) ==
  [tm EXCEPT !.pending = @ \cup {[id |-> NextHandle(tm), fn |-> f, args |-> args,
                                  due |-> nowv + Ticks(wait)]}]

\* clearTimeout(h): nothing happens for undefined or a timeout that ran.
clearTimeout(tm, h) == [tm EXCEPT !.pending = {p \in @ : p.id # h}]

\* The function debounce returns, without its clearTimeout.
debouncedNoClear(tm, f, args, nowv) ==
  [setTimeout(tm, f, args, tm.wait[f], nowv) EXCEPT !.t[f] = NextHandle(tm)]

\* The function debounce(fn, wait) returns, called with args:
\* clearTimeout(t); t = setTimeout(() => fn(...args), wait).
debounced(tm, f, args, nowv) ==
  LET cleared == clearTimeout(tm, tm.t[f])
  IN [setTimeout(cleared, f, args, tm.wait[f], nowv) EXCEPT !.t[f] = NextHandle(cleared)]

\* The timeouts the event loop may run at clock reading nowv: due, and
\* none pending that is due earlier. A timeout may run late.
Due(tm, nowv) ==
  {p \in tm.pending : p.due <= nowv /\ \A q \in tm.pending : q.due >= p.due}

(* ------------------------------ the application, not started ----------- *)
FilterAll == [type |-> "all", value |-> Null]

\* The state object of initApp (sidebarOpen, which only the menu button
\* reads and writes, is left out).
InitialState == [selectedId |-> Null, filter |-> FilterAll, query |-> Str(<<>>)]

\* The values of the search box, the title input, the content area, and
\* the tags of the tag input.
EmptyDom == [search |-> Str(<<>>), noteTitle |-> Str(<<>>), noteContent |-> Str(<<>>),
             tags |-> <<>>]

NoApp ==
  /\ state = InitialState
  /\ dom = EmptyDom
  /\ timers = NoTimers
  /\ burst = <<>>

(* ------------------------------ calls ---------------------------------- *)
\* last records the most recent call: operation, arguments, result.
NoCall == [op |-> "none", id |-> Undef, arg |-> Undef, raised |-> FALSE, ret |-> Undef]

\* uid() runs when the id handed to normalizeNote is falsy.
Call(op, id, arg, result, usesUid) ==
  /\ usesUid => uidCount < MaxUid
  /\ \E r \in {result} :
       /\ slot' = r.slot
       /\ last' = [op |-> op, id |-> id, arg |-> arg, raised |-> r.raised, ret |-> r.ret]
  /\ uidCount' = IF usesUid THEN uidCount + 1 ELSE uidCount
  /\ UNCHANGED <<now, app>>

CallCreateNote(initial, cap) ==
  /\ Len(Notes(slot)) < cap
  /\ Call("createNote", Undef, initial,
          createNote(slot, initial, now, uid(uidCount + 1)),
          ~Truthy(Prop(initial, "id")))

CallGetNote(id) ==
  Call("getNote", id, Undef, getNote(slot, id), FALSE)

CallUpdateNote(id, fields) ==
  Call("updateNote", id, fields,
       updateNote(slot, id, fields, now, uid(uidCount + 1)),
       FindIndex(Notes(slot), id, 1) > 0 /\ ~Truthy(id))

CallDeleteNote(id) ==
  Call("deleteNote", id, Undef, deleteNote(slot, id), FALSE)

CallToggleFavorite(id) ==
  Call("toggleFavorite", id, Undef,
       toggleFavorite(slot, id, now, uid(uidCount + 1)),
       FindIndex(Notes(slot), id, 1) > 0 /\ ~Truthy(id))

CallListNotes(options) ==
  Call("listNotes", Undef, options, listNotes(slot, options), FALSE)

CallListTags ==
  Call("listTags", Undef, Undef, listTags(slot), FALSE)

\* load(): the envelope that readStore hands to the operations.
CallReadStore ==
  Call("readStore", Undef, Undef, Outcome(slot, readStore(slot)), FALSE)

\* save(load()): writeStore of the envelope that readStore returns.
CallWriteStore ==
  Call("writeStore", Undef, readStore(slot),
       Outcome(writeStore(readStore(slot)), Undef), FALSE)

\* The clock advances between calls.
Tick ==
  /\ now < MaxClock
  /\ now' = now + 1
  /\ UNCHANGED <<slot, uidCount, last, app>>

(* ------------------------------ the store, from an empty slot ---------- *)
IdX == Str(<<"x">>)
IdY == Str(<<"y">>)

\* The ids of the notes in the slot.
IdsIn(raw) == {Prop(Notes(raw)[i], "id") : i \in 1..Len(Notes(raw))}

\* Ids a caller passes: those of the notes, one it supplies, one never used.
CallerIds == IdsIn(slot) \cup {IdX, IdY}

Initials ==
  { Obj(<<>>),
    Obj([id |-> IdX]) }

Fields ==
  { Obj(<<>>),
    Obj([id |-> IdY, favorite |-> Bool(TRUE)]),
    Obj([title |-> Num(5)]) }

Init ==
  /\ slot = Null
  /\ now = 1
  /\ uidCount = 0
  /\ last = NoCall
  /\ NoApp

\* Calls with caller-supplied ids, all within one clock reading.
Next ==
  \/ \E initial \in Initials \cup {Obj([id |-> i]) : i \in IdsIn(slot)} :
        CallCreateNote(initial, MaxNotes)
  \/ \E id \in CallerIds : CallGetNote(id)
  \/ \E id \in CallerIds, fields \in Fields : CallUpdateNote(id, fields)
  \/ \E id \in CallerIds : CallDeleteNote(id)
  \/ \E id \in CallerIds : CallToggleFavorite(id)

Spec == Init /\ [][Next]_vars

(* ------------------------------ timestamps ----------------------------- *)
\* A timestamp later than every clock reading of the run, and an early one.
Future == Date(MaxClock + 1)
Epoch == Date(0)

InitialsTime ==
  { Obj(<<>>),
    Obj([updatedAt |-> Future]),
    Obj([createdAt |-> Epoch]) }

FieldsTime ==
  { Obj(<<>>),
    Obj([createdAt |-> Epoch]),
    Obj([createdAt |-> Null]),
    Obj([id |-> IdY, updatedAt |-> Epoch]),
    Obj([title |-> Num(5), updatedAt |-> Epoch]) }

\* Calls with caller-supplied timestamps, the clock advancing between them.
NextTime ==
  \/ \E initial \in InitialsTime : CallCreateNote(initial, MaxFew)
  \/ \E id \in CallerIds, fields \in FieldsTime : CallUpdateNote(id, fields)
  \/ \E id \in CallerIds : CallToggleFavorite(id)
  \/ Tick

SpecTime == Init /\ [][NextTime]_vars

(* ------------------------------ any content of the slot ---------------- *)
GoodNote ==
  Obj([id |-> IdX, title |-> Str(<<"a">>), content |-> Str(<<>>),
       tags |-> Arr(<<Str(<<"a">>)>>), favorite |-> Bool(TRUE),
       createdAt |-> Date(1), updatedAt |-> Date(1)])

\* Elements a notes array of the slot can hold.
SlotElems ==
  { Null, Num(5), Obj(<<>>), GoodNote,
    Obj([GoodNote.v EXCEPT !.tags = Str(<<"a">>)]),
    Obj([GoodNote.v EXCEPT !.tags = Arr(<<Num(5)>>)]),
    Obj([GoodNote.v EXCEPT !.title = Num(5)]) }

SlotArrays == UNION {[1..n -> SlotElems] : n \in 0..MaxSlotNotes}

\* Values the slot's text can parse to.
SlotValues ==
  { Null, Bool(FALSE), Bool(TRUE), Num(0), Num(5), Str(<<>>), Str(<<"a">>),
    Arr(<<>>), Arr(<<GoodNote>>), Obj(<<>>),
    Obj([notes |-> Null]), Obj([notes |-> Num(5)]), Obj([notes |-> Str(<<"a">>)]),
    Obj([notes |-> Bool(TRUE)]), Obj([notes |-> Obj(<<>>)]),
    Obj([items |-> Arr(<<GoodNote>>)]) }
  \cup {Obj([notes |-> Arr(a)]) : a \in SlotArrays}

SlotContents == {Null, EmptyText, GarbageText} \cup {JsonText(j) : j \in SlotValues}

ListOptions ==
  { Obj(<<>>),
    Obj([favorites |-> Bool(TRUE)]),
    Obj([tag |-> Str(<<"A", " ">>)]),
    Obj([tag |-> Str(<<"b">>)]),
    Obj([query |-> Str(<<" ", "a">>)]),
    Obj([favorites |-> Bool(TRUE), tag |-> Str(<<"a">>), query |-> Str(<<"a">>)]) }

InitSlot ==
  /\ slot \in SlotContents
  /\ now = 1
  /\ uidCount = 0
  /\ last = NoCall
  /\ NoApp

\* Reads of a slot that something else has written.
NextSlot ==
  \/ CallReadStore
  \/ \E options \in ListOptions : CallListNotes(options)
  \/ CallListTags
  \/ \E id \in {IdX, IdY} : CallGetNote(id)

SpecSlot == InitSlot /\ [][NextSlot]_vars

(* ------------------------------ the normalizer alone ------------------- *)
NormInputs ==
  { Obj([id |-> i, title |-> ti, content |-> c, tags |-> tg, favorite |-> f]) :
      i \in {Undef, IdX},
      ti \in {Undef, Null, Str(<<" ", "a", " ">>), Num(5)},
      c \in {Undef, Str(<<"a", " ">>), Num(5)},
      tg \in {Undef, Str(<<"a">>),
              Arr(<<Str(<<" ", "a">>), Str(<<"a">>), Num(5), Null>>)},
      f \in {Undef, Num(1)} }

CallNormalizeNote(n) ==
  LET r == normalizeNote(n, now, uid(uidCount + 1))
  IN Call("normalizeNote", Undef, n,
          [slot |-> slot, raised |-> r.raised, ret |-> r.value],
          ~Truthy(Prop(n, "id")))

\* Inputs that carry their own timestamps, and the missing argument.
NormStamped ==
  { Undef,
    Obj([createdAt |-> Epoch, updatedAt |-> Future]),
    Obj([id |-> IdY, title |-> Str(<<"b">>), updatedAt |-> Str(<<"x">>)]) }

NextNorm == \E n \in NormInputs \cup NormStamped : CallNormalizeNote(n)

SpecNorm == Init /\ [][NextNorm]_vars

(* ------------------------------ tags ----------------------------------- *)
TagElems == {Str(<<>>), Str(<<"a">>), Str(<<" ", "a">>), Str(<<"b", " ">>)}

TagArrays == UNION {[1..n -> TagElems] : n \in 0..MaxTags}

\* A tags that is no array, an array with elements that are no strings,
\* and the arrays of strings.
TagInputs ==
  {Str(<<"a">>), Arr(<<Num(5), Null, Str(<<"5", " ">>)>>)}
    \cup {Arr(a) : a \in TagArrays}

\* createNote and updateNote with caller-supplied tags, updateNote with no
\* tags in its fields, and the reads.
NextTags ==
  \/ \E tags \in TagInputs : CallCreateNote(Obj([tags |-> tags]), MaxFew)
  \/ \E id \in IdsIn(slot), tags \in TagInputs : CallUpdateNote(id, Obj([tags |-> tags]))
  \/ \E id \in IdsIn(slot) : CallUpdateNote(id, Obj(<<>>))
  \/ \E id \in CallerIds : CallGetNote(id)
  \/ \E options \in ListOptions : CallListNotes(options)
  \/ CallListTags

SpecTags == Init /\ [][NextTags]_vars

(* ------------------------------ listings ------------------------------- *)
\* A caller-supplied updatedAt that is no timestamp.
NoTime == Str(<<"x">>)

\* Notes a caller creates: titles that differ in case, a match of "a" in
\* the content only, tags in several cases and orders, own updatedAt.
InitialsList ==
  { Obj([title |-> Str(<<"a">>), tags |-> Arr(<<Str(<<"a">>)>>), favorite |-> Bool(TRUE)]),
    Obj([title |-> Str(<<"B">>), content |-> Str(<<"a", "b">>),
         tags |-> Arr(<<Str(<<"b">>), Str(<<"A">>), Str(<<"a">>)>>)]),
    Obj([title |-> Str(<<"b">>), favorite |-> Bool(TRUE), updatedAt |-> Epoch]),
    Obj([title |-> Str(<<"b">>), updatedAt |-> NoTime]) }

\* The options of ListOptions, and a tag and a query of white space only.
ListOptionsMore ==
  ListOptions \cup
  { Obj([tag |-> Str(<<" ">>)]),
    Obj([query |-> Str(<<" ">>)]),
    Obj([favorites |-> Bool(FALSE), query |-> Str(<<"B">>)]) }

\* Creation and the two listings, the clock advancing between them.
NextList ==
  \/ \E initial \in InitialsList : CallCreateNote(initial, MaxNotes)
  \/ \E options \in ListOptionsMore : CallListNotes(options)
  \/ CallListTags
  \/ Tick

SpecList == Init /\ [][NextList]_vars

(* ------------------------------ round trips ---------------------------- *)
\* createNote calls from the empty slot, with reads and write-backs of the
\* envelope between them.
NextRound ==
  \/ \E initial \in InitialsList \cup Initials : CallCreateNote(initial, MaxNotes)
  \/ CallReadStore
  \/ CallWriteStore
  \/ Tick

SpecRound == Init /\ [][NextRound]_vars

(* ------------------------------ a debounced function ------------------- *)
\* The waits debounce is created with: multiples of the default.
Waits == {DefaultWait * k : k \in 1..MaxWait}

DebounceArgs == {Str(<<"a">>), Str(<<"b">>)}

\* debounce(fn, wait) has returned its closure.
InitDebounce ==
  /\ slot = Null
  /\ now = 1
  /\ uidCount = 0
  /\ last = NoCall
  /\ state = InitialState
  /\ dom = EmptyDom
  /\ burst = <<>>
  /\ \E wait \in Waits : timers = [NoTimers EXCEPT !.wait["fn"] = wait]

\* The calls recorded in burst.
CallsIn(b) ==
  LET isCall(e) == e.ev = "call"
  IN SelectSeq(b, isCall)

\* A call of the closure with args. burst starts again with the first
\* call after fn has run.
CallDebounced(args) ==
  /\ Len(CallsIn(burst)) < MaxCalls
  /\ timers' = debounced(timers, "fn", args, now)
  /\ burst' = (IF burst # <<>> /\ burst[Len(burst)].ev = "fn" THEN <<>> ELSE burst)
                 \o <<[ev |-> "call", at |-> now, args |-> args]>>
  /\ last' = [op |-> "debounced", id |-> Undef, arg |-> args, raised |-> FALSE, ret |-> Undef]
  /\ UNCHANGED <<slot, now, uidCount, state, dom>>

\* The event loop runs a timeout of the closure: fn(...args).
FnTimer ==
  \E p \in Due(timers, now) :
    /\ p.fn = "fn"
    /\ timers' = [timers EXCEPT !.pending = @ \ {p}]
    /\ burst' = Append(burst, [ev |-> "fn", at |-> now, args |-> p.args])
    /\ last' = [op |-> "fn", id |-> Undef, arg |-> p.args, raised |-> FALSE, ret |-> Undef]
    /\ UNCHANGED <<slot, now, uidCount, state, dom>>

\* Time passes, pending timeouts or not.
Elapse ==
  /\ now < MaxTime
  /\ now' = now + 1
  /\ UNCHANGED <<slot, uidCount, last, app>>

NextDebounce ==
  \/ \E args \in DebounceArgs : CallDebounced(args)
  \/ FnTimer
  \/ Elapse

SpecDebounce == InitDebounce /\ [][NextDebounce]_vars

(* ------------------------------ edits of a collection ------------------ *)
\* Creation, favorite toggling and deletion within one clock reading.
NextEdit ==
  \/ \E initial \in InitialsList \cup {Obj([id |-> IdX, title |-> Str(<<"a">>)])} :
        CallCreateNote(initial, MaxNotes)
  \/ \E id \in CallerIds : CallToggleFavorite(id)
  \/ \E id \in CallerIds : CallDeleteNote(id)

SpecEdit == Init /\ [][NextEdit]_vars

(* ------------------------------ the application (ui/app.js) ------------ *)
\* On a slot that only the store writes, with the strings the inputs hold,
\* no store call of the handlers raises; the operators below read the
\* results only.

\* The value of an expression that is evaluated once: the element of {e}.
\* A call passes values, so the handlers below bind theirs this way.
The(S) == CHOOSE r \in S : TRUE

\* a || b
Or(a, b) == IF Truthy(a) THEN a ELSE b

\* The note the New button creates.
UntitledNote ==
  Obj([title |-> Str(<<"U", "n", "t", "i", "t", "l", "e", "d">>), content |-> Str(<<>>),
       tags |-> Arr(<<>>), favorite |-> Bool(FALSE)])

\* The note refresh creates when the collection is empty (of its content,
\* the first line).
WelcomeNote ==
  Obj([title |-> Str(<<"W", "e", "l", "c", "o", "m", "e">>),
       content |-> Str(<<"T", "h", "i", "s", " ", "i", "s", " ", "y", "o",
                          "u", "r", " ", "n", "o", "t", "e", "s", " ", "a", "p",
                          "p", ".">>),
       tags |-> Arr(<<Str(<<"w", "e", "l", "c", "o", "m", "e">>)>>), favorite |-> Bool(TRUE)])

\* What a handler works on: the slot, the count of uid() calls, state, and
\* the input elements.
World == [slot |-> slot, uidCount |-> uidCount, state |-> state, dom |-> dom]

\* The options refreshNotesList and the delete handler pass to listNotes.
opts(st) ==
  Obj([query |-> st.query,
       favorites |-> Bool(st.filter.type = "favorites"),
       tag |-> IF st.filter.type = "tag" THEN st.filter.value ELSE Undef])

\* The notes the list shows: every handler that changes the collection,
\* the filter or the query renders the list again before it returns.
Listed(raw, st) == listNotes(raw, opts(st)).ret.v

\* refreshNotesList: renders the list; with no selection, selects the first.
refreshNotesList(w0) ==
  The({ The({ IF ~Truthy(w.state.selectedId) /\ notes # <<>>
              THEN [w EXCEPT !.state.selectedId = Prop(notes[1], "id")]
              ELSE w
              : notes \in {Listed(w.slot, w.state)} })
        : w \in {w0} })

\* onTagsChanged(tags); refreshTagList only renders.
onTagsChanged(w0, tags, nowv) ==
  The({ IF ~Truthy(w.state.selectedId) THEN w
        ELSE refreshNotesList(
               [w EXCEPT !.slot = updateNote(w.slot, w.state.selectedId,
                                             Obj([tags |-> Arr(tags)]),
                                             nowv, uid(w.uidCount + 1)).slot])
        : w \in {w0} })

\* tagControl.setTags(next): normalizes next, then render() calls onChange.
setTags(w, next, nowv) ==
  The({ onTagsChanged([w EXCEPT !.dom.tags = tags], tags, nowv)
        : tags \in {NormTags(next).v} })

renderEditor(w, note0, nowv) ==
  The({ IF ~Truthy(note)
        THEN setTags([w EXCEPT !.dom.noteTitle = Str(<<>>), !.dom.noteContent = Str(<<>>)],
                     Arr(<<>>), nowv)
        ELSE setTags([w EXCEPT !.dom.noteTitle = Or(Prop(note, "title"), Str(<<>>)),
                               !.dom.noteContent = Or(Prop(note, "content"), Str(<<>>))],
                     Or(Prop(note, "tags"), Arr(<<>>)), nowv)
        : note \in {note0} })

\* refresh: the Welcome note created and selected.
refreshWelcome(w0, nowv) ==
  The({ [w0 EXCEPT !.slot = welcome.slot,
                   !.uidCount = @ + 1,
                   !.state.selectedId = Prop(welcome.ret, "id")]
        : welcome \in {createNote(w0.slot, WelcomeNote, nowv, uid(w0.uidCount + 1))} })

refresh(w0, nowv) ==
  The({ The({ The({ renderEditor(w2, getNote(w2.slot, w2.state.selectedId).ret, nowv)
                    : w2 \in {refreshNotesList(w1)} })
              : w1 \in {IF Len(listNotes(w.slot, Obj(<<>>)).ret.v) = 0
                        THEN refreshWelcome(w, nowv)
                        ELSE w} })
        : w \in {w0} })

\* A handler has run and left the world w.
Handled(op, arg, w) ==
  \E v \in {w} :
    /\ v.uidCount <= MaxUid
    /\ slot' = v.slot
    /\ uidCount' = v.uidCount
    /\ state' = v.state
    /\ dom' = v.dom
    /\ last' = [op |-> op, id |-> state.selectedId, arg |-> arg, raised |-> FALSE, ret |-> Undef]
    /\ UNCHANGED <<now, burst>>

\* Click on the New button.
AddClick ==
  /\ Len(Notes(slot)) < MaxNotes
  /\ \E n \in {createNote(slot, UntitledNote, now, uid(uidCount + 1))} :
        Handled("addClick", Undef,
                refresh([World EXCEPT !.slot = n.slot,
                                      !.uidCount = @ + 1,
                                      !.state.selectedId = Prop(n.ret, "id"),
                                      !.state.filter = FilterAll,
                                      !.state.query = Str(<<>>),
                                      !.dom.search = Str(<<>>)], now))
  /\ UNCHANGED timers

FilterAllClick ==
  /\ Handled("filterAllClick", Undef, refresh([World EXCEPT !.state.filter = FilterAll], now))
  /\ UNCHANGED timers

FilterFavClick ==
  /\ Handled("filterFavClick", Undef,
             refresh([World EXCEPT !.state.filter = [type |-> "favorites", value |-> Bool(TRUE)]],
                     now))
  /\ UNCHANGED timers

\* Click on the button of a tag in the sidebar.
TagClick(t) ==
  /\ Handled("tagClick", t,
             refreshNotesList([World EXCEPT !.state.filter = [type |-> "tag", value |-> t]]))
  /\ UNCHANGED timers

\* The input event handed to a debounced handler. Of its fields the
\* handlers read target only; selectedId and value record what was
\* selected and what the element held when the event was made.
InputEvent(target, value) ==
  [target |-> target, selectedId |-> state.selectedId, value |-> value]

\* The user types text into the search box.
SearchInput(text) ==
  /\ dom' = [dom EXCEPT !.search = text]
  /\ timers' = debounced(timers, "search", InputEvent("search", text), now)
  /\ last' = [op |-> "searchInput", id |-> state.selectedId, arg |-> text,
              raised |-> FALSE, ret |-> Undef]
  /\ UNCHANGED <<slot, now, uidCount, state, burst>>

\* The debounced search handler runs.
SearchTimer ==
  \E p \in Due(timers, now) :
    /\ p.fn = "search"
    /\ timers' = [timers EXCEPT !.pending = @ \ {p}]
    /\ Handled("searchTimer", p.args,
               refreshNotesList([World EXCEPT !.state.query = Or(dom.search, Str(<<>>))]))

\* The user types: the title input holds text.
TitleInput(text) ==
  /\ dom' = [dom EXCEPT !.noteTitle = text]
  /\ timers' = debounced(timers, "title", InputEvent("noteTitle", text), now)
  /\ last' = [op |-> "titleInput", id |-> state.selectedId, arg |-> text,
              raised |-> FALSE, ret |-> Undef]
  /\ UNCHANGED <<slot, now, uidCount, state, burst>>

\* The debounced title handler runs.
TitleTimer ==
  \E p \in Due(timers, now) :
    /\ p.fn = "title"
    /\ timers' = [timers EXCEPT !.pending = @ \ {p}]
    /\ Handled("titleTimer", p.args,
               IF ~Truthy(state.selectedId) THEN World
               ELSE refreshNotesList(
                      [World EXCEPT !.slot =
                         updateNote(slot, state.selectedId, Obj([title |-> dom.noteTitle]),
                                    now, uid(uidCount + 1)).slot]))

\* The user types: the content area holds text.
ContentInput(text) ==
  /\ dom' = [dom EXCEPT !.noteContent = text]
  /\ timers' = debounced(timers, "content", InputEvent("noteContent", text), now)
  /\ last' = [op |-> "contentInput", id |-> state.selectedId, arg |-> text,
              raised |-> FALSE, ret |-> Undef]
  /\ UNCHANGED <<slot, now, uidCount, state, burst>>

\* The debounced content handler runs.
ContentTimer ==
  \E p \in Due(timers, now) :
    /\ p.fn = "content"
    /\ timers' = [timers EXCEPT !.pending = @ \ {p}]
    /\ Handled("contentTimer", p.args,
               IF ~Truthy(state.selectedId) THEN World
               ELSE refreshNotesList(
                      [World EXCEPT !.slot =
                         updateNote(slot, state.selectedId, Obj([content |-> dom.noteContent]),
                                    now, uid(uidCount + 1)).slot]))

\* The delete handler without the assignment to state.selectedId.
DeleteClickKeepsSelection ==
  /\ Truthy(state.selectedId)
  /\ \E deleted \in {deleteNote(slot, state.selectedId)} :
       LET w == [World EXCEPT !.slot = deleted.slot]
       IN Handled("deleteClick", Undef,
                  IF Truthy(deleted.ret) THEN refresh(w, now) ELSE w)
  /\ UNCHANGED timers

\* Click on the delete button, with a note selected.
DeleteClick ==
  /\ Truthy(state.selectedId)
  /\ \E deleted \in {deleteNote(slot, state.selectedId)} :
       \E remain \in {Listed(deleted.slot, state)} :
         LET w == [World EXCEPT !.slot = deleted.slot]
         IN Handled("deleteClick", Undef,
                    IF Truthy(deleted.ret)
                    THEN refresh([w EXCEPT !.state.selectedId =
                                    IF remain # <<>> THEN Prop(remain[1], "id") ELSE Null], now)
                    ELSE w)
  /\ UNCHANGED timers

\* Click on the favorite button, with a note selected.
FavClick ==
  /\ Truthy(state.selectedId)
  /\ \E updated \in {toggleFavorite(slot, state.selectedId, now, uid(uidCount + 1))} :
       LET w == [World EXCEPT !.slot = updated.slot]
       IN Handled("favClick", Undef,
                  IF Truthy(updated.ret)
                  THEN renderEditor(refreshNotesList(w), updated.ret, now)
                  ELSE w)
  /\ UNCHANGED timers

\* Click on the note n of the list.
NoteClick(n) ==
  /\ Handled("noteClick", n,
             refreshNotesList(
               renderEditor([World EXCEPT !.state.selectedId = Prop(n, "id")], n, now)))
  /\ UNCHANGED timers

\* Enter in the tag input that holds text (no comma in it).
TagEnter(text) ==
  /\ text.v # <<>>
  /\ LET t == Str(Trim(text.v))
         tags == IF t.v = <<>> \/ \E i \in 1..Len(dom.tags) : dom.tags[i] = t
                 THEN dom.tags ELSE Append(dom.tags, t)
     IN Handled("tagEnter", text,
                onTagsChanged([World EXCEPT !.dom.tags = tags], tags, now))
  /\ UNCHANGED timers

\* Click on the remove button of the chip of a tag.
TagRemove(label) ==
  /\ LET differs(t) == t # label
         tags == SelectSeq(dom.tags, differs)
     IN Handled("tagRemove", label,
                onTagsChanged([World EXCEPT !.dom.tags = tags], tags, now))
  /\ UNCHANGED timers

\* initApp on the empty slot: tagInput renders with no selection, then
\* refresh.
InitUI ==
  /\ now = 1
  /\ last = NoCall
  /\ timers = NoTimers
  /\ burst = <<>>
  /\ \E w \in {refresh([slot |-> Null, uidCount |-> 0, state |-> InitialState,
                           dom |-> EmptyDom], 1)} :
        /\ slot = w.slot
        /\ uidCount = w.uidCount
        /\ state = w.state
        /\ dom = w.dom

\* The notes of the rendered list, each with its click handler.
ListItems == UNION {{notes[i] : i \in DOMAIN notes} : notes \in {Listed(slot, state)}}

\* What the user types.
TitleTexts == {Str(<<"a">>)}
ContentTexts == {Str(<<"b">>)}

SearchTexts == {Str(<<"a">>)}
TagTexts == {Str(<<"a">>)}

\* The editor: new notes, selection in the list, typing of title and
\* content, the All filter, the clock.
NextUI ==
  \/ AddClick
  \/ \E n \in ListItems : NoteClick(n)
  \/ \E text \in TitleTexts : TitleInput(text)
  \/ TitleTimer
  \/ \E text \in ContentTexts : ContentInput(text)
  \/ ContentTimer
  \/ FilterAllClick
  \/ Tick

\* The other handlers: the favorite and delete buttons, the filters of the
\* sidebar, the search box and the tag input.
NextApp ==
  \/ NextUI
  \/ FavClick
  \/ DeleteClick
  \/ FilterFavClick
  \/ \E i \in 1..Len(listTags(slot).ret.v) : TagClick(Prop(listTags(slot).ret.v[i], "tag"))
  \/ \E text \in SearchTexts : SearchInput(text)
  \/ SearchTimer
  \/ \E text \in TagTexts : TagEnter(text)
  \/ \E i \in 1..Len(dom.tags) : TagRemove(dom.tags[i])

SpecUI == InitUI /\ [][NextUI]_vars

SpecApp == InitUI /\ [][NextApp]_vars

\* The selection: the handlers that set state.selectedId or read it to call
\* the store (new, delete, favorite, the Favorites filter, note click, the
\* debounced title edit), and the clock.
NextSelect ==
  \/ AddClick
  \/ DeleteClick
  \/ FavClick
  \/ FilterFavClick
  \/ \E n \in ListItems : NoteClick(n)
  \/ \E text \in TitleTexts : TitleInput(text)
  \/ TitleTimer
  \/ Tick

SpecSelect == InitUI /\ [][NextSelect]_vars

(* ------------------------------ claims: identity ----------------------- *)
AllIds == {IdX, IdY} \cup {uid(k) : k \in 1..MaxUid}

IsNote(x) == x.t = "object"

\* C1: no two notes of the persisted collection have the same id.
C1_UniqueIds ==
  \A i, j \in 1..Len(Notes(slot)) :
    i # j => Prop(Notes(slot)[i], "id") # Prop(Notes(slot)[j], "id")

\* C2: the note createNote returns has a newly generated id, which differs
\* from initial.id whenever initial.id was supplied.
C2_CreateMintsFreshId ==
  (last.op = "createNote" /\ ~last.raised /\ Prop(last.arg, "id") # Undef)
    => /\ Prop(last.ret, "id") # Prop(last.arg, "id")
       /\ Prop(last.ret, "id") = uid(uidCount)

\* C3: an updateNote or toggleFavorite call leaves the createdAt of every
\* note of the collection as it was.
C3_CreatedAtNeverChanges ==
  [][ last'.op \in {"updateNote", "toggleFavorite"}
        => /\ Len(Notes(slot')) = Len(Notes(slot))
           /\ \A i \in 1..Len(Notes(slot)) :
                Prop(Notes(slot')[i], "createdAt") = Prop(Notes(slot)[i], "createdAt")
    ]_vars

\* The note that a call on id works on, in the collection before the call.
Target(raw, id) == Notes(raw)[FindIndex(Notes(raw), id, 1)]

\* A step that is an updateNote call on a note of the collection.
UpdateStep ==
  /\ now' = now
  /\ last'.op = "updateNote"
  /\ FindIndex(Notes(slot), last'.id, 1) > 0

C5_NotFound ==
  [][ ( /\ last'.op \in {"getNote", "updateNote", "toggleFavorite", "deleteNote"}
        /\ FindIndex(Notes(slot), last'.id, 1) = 0 )
        => /\ ~last'.raised
           /\ last'.ret = IF last'.op = "deleteNote" THEN Bool(FALSE) ELSE Undef
           /\ Notes(slot') = Notes(slot)
           /\ last'.op # "deleteNote" => slot' = slot
    ]_vars

\* deleteNote of an id that is not there has answered false, on a
\* collection that is not empty.
C5_Witness ==
  /\ last.op = "deleteNote"
  /\ last.ret = Bool(FALSE)
  /\ Len(Notes(slot)) > 0

\* C6: after deleteNote(id) has returned true, getNote(id) returns
\* undefined and deleteNote(id) returns false; and an id that getNote does
\* not find stays not found by every call other than createNote.
C6_DeleteThenGet ==
  [][ /\ (last'.op = "deleteNote" /\ last'.ret = Bool(TRUE))
          => /\ getNote(slot', last'.id).ret = Undef
             /\ deleteNote(slot', last'.id).ret = Bool(FALSE)
      /\ \A id \in AllIds :
           (getNote(slot, id).ret = Undef /\ last'.op # "createNote")
             => getNote(slot', id).ret = Undef
    ]_vars

\* deleteNote has removed the notes of an id while another note stays.
C6_Witness ==
  /\ last.op = "deleteNote"
  /\ last.ret = Bool(TRUE)
  /\ Len(Notes(slot)) > 0

(* ------------------------------ claims: persisted data ----------------- *)
\* The slot holds nothing that parses to an object with a notes array.
Malformed(raw) ==
  \/ raw.t # "json"
  \/ raw.v.t # "object"
  \/ "notes" \notin DOMAIN raw.v.v
  \/ raw.v.v["notes"].t # "array"

\* C7: readStore does not raise and returns an object whose notes field is
\* an array, whatever the slot holds; it returns { notes: [] } when the
\* slot is absent, is not JSON, parses to a non-object, or has a notes
\* field that is no array.
C7_LoadTotal ==
  last.op = "readStore"
    => /\ ~last.raised
       /\ last.ret.t = "object"
       /\ "notes" \in DOMAIN last.ret.v
       /\ last.ret.v["notes"].t = "array"
       /\ Malformed(slot) => last.ret = Obj([notes |-> Arr(<<>>)])

\* readStore has answered on a slot whose JSON has a notes field that is
\* no array.
C7_Witness ==
  /\ last.op = "readStore"
  /\ slot.t = "json"
  /\ slot.v.t = "object"
  /\ "notes" \in DOMAIN slot.v.v
  /\ slot.v.v["notes"].t # "array"

\* The invariants of a Note.
NoteInvariant(n) ==
  /\ n.t = "object"
  /\ \A k \in {"id", "title", "content"} : Prop(n, k).t = "string"
  /\ Prop(n, "tags").t = "array"
  /\ \A i \in 1..Len(Prop(n, "tags").v) :
       Prop(n, "tags").v[i].t = "string" /\ Prop(n, "tags").v[i].v # <<>>
  /\ Prop(n, "favorite").t = "boolean"

\* C8: whatever the slot holds, every element of the notes that readStore
\* hands to the operations satisfies the Note invariants, and listNotes
\* and listTags do not raise.
C8_StoreSeesValidNotes ==
  /\ last.op = "readStore"
       => \A i \in 1..Len(Prop(last.ret, "notes").v) :
            NoteInvariant(Prop(last.ret, "notes").v[i])
  /\ last.op \in {"listNotes", "listTags"} => ~last.raised

\* C9: normalizeNote does not raise, and returns a note whose title and
\* content are strings, whose tags is an array of strings and whose
\* favorite is a boolean.
C9_NormalizerTotal ==
  last.op = "normalizeNote"
    => /\ ~last.raised
       /\ Prop(last.ret, "title").t = "string"
       /\ Prop(last.ret, "content").t = "string"
       /\ Prop(last.ret, "tags").t = "array"
       /\ \A i \in 1..Len(Prop(last.ret, "tags").v) :
            Prop(last.ret, "tags").v[i].t = "string"
       /\ Prop(last.ret, "favorite").t = "boolean"

(* ------------------------------ claims: tags --------------------------- *)
\* No duplicate, no empty string, no white space at either end.
TagsClean(tags) ==
  /\ tags.t = "array"
  /\ \A i \in 1..Len(tags.v) :
       /\ tags.v[i].t = "string"
       /\ tags.v[i].v # <<>>
       /\ tags.v[i].v[1] \notin WhiteSpace
       /\ tags.v[i].v[Len(tags.v[i].v)] \notin WhiteSpace
       /\ \A j \in 1..Len(tags.v) : i # j => tags.v[i] # tags.v[j]

\* The input element x without the white space at its ends.
Trimmed(x) == Str(Trim(ToStr(x)))

\* The first position of the input whose trimmed value is tag.
FirstSeen(in, tag) ==
  CHOOSE k \in 1..Len(in) :
    Trimmed(in[k]) = tag /\ \A m \in 1..(k - 1) : Trimmed(in[m]) # tag

\* out holds the trimmed non-empty values of in, each once, in the order
\* of their first occurrence in in.
FirstSeenOrder(in, out) ==
  /\ \A i \in 1..Len(out) : \E k \in 1..Len(in) : Trimmed(in[k]) = out[i]
  /\ \A k \in 1..Len(in) :
       Trimmed(in[k]).v # <<>> => \E i \in 1..Len(out) : out[i] = Trimmed(in[k])
  /\ \A i, j \in 1..Len(out) : i < j => FirstSeen(in, out[i]) < FirstSeen(in, out[j])

\* C10: the tags of every note of the collection hold no duplicate, no
\* empty string and no element with white space at its ends, and the note
\* that createNote or updateNote returns for a tags array holds its
\* values in first-seen order.
C10_TagsNormalized ==
  /\ \A i \in 1..Len(Notes(slot)) : TagsClean(Prop(Notes(slot)[i], "tags"))
  /\ ( /\ last.op \in {"createNote", "updateNote"}
       /\ IsNote(last.ret)
       /\ Prop(last.arg, "tags").t = "array" )
       => FirstSeenOrder(Prop(last.arg, "tags").v, Prop(last.ret, "tags").v)

\* updateNote has stored two tags out of an input with white space, in
\* the order of the input.
C10_Witness ==
  /\ last.op = "updateNote"
  /\ Prop(last.arg, "tags") = Arr(<<Str(<<"b", " ">>), Str(<<" ", "a">>)>>)
  /\ Prop(last.ret, "tags") = Arr(<<Str(<<"b">>), Str(<<"a">>)>>)
  /\ \E i \in 1..Len(Notes(slot)) : Notes(slot)[i] = last.ret

(* ------------------------------ claims: normalization ------------------ *)
\* Clock readings and generated ids of a later call.
LaterClocks == 1..(MaxClock + 1)
LaterUids == {uid(k) : k \in 1..(MaxUid + 1)}

\* C11: normalizing a note that normalizeNote returned gives the same note
\* in every field (id, title, content, tags, favorite, createdAt,
\* updatedAt), whatever the clock reads and whatever uid() would return
\* on the second call.
C11_Idempotent ==
  (last.op = "normalizeNote" /\ ~last.raised) =>
    \A c \in LaterClocks, fresh \in LaterUids :
      /\ ~normalizeNote(last.ret, c, fresh).raised
      /\ \A k \in {"id", "title", "content", "tags", "favorite", "createdAt", "updatedAt"} :
           Prop(normalizeNote(last.ret, c, fresh).value, k) = Prop(last.ret, k)
      /\ normalizeNote(last.ret, c, fresh).value = last.ret

\* A note normalized from an input without id and timestamps, with a title
\* to trim and tags to trim and deduplicate: the first call took the id
\* from uid() and the timestamps from the clock.
C11_Witness ==
  /\ last.op = "normalizeNote" /\ ~last.raised
  /\ Prop(last.arg, "id") = Undef
  /\ Prop(last.arg, "title") = Str(<<" ", "a", " ">>)
  /\ IsArray(Prop(last.arg, "tags"))
  /\ Prop(last.ret, "title") = Str(<<"a">>)
  /\ Prop(last.ret, "updatedAt") = Date(now)
  /\ Prop(last.ret, "id") = uid(uidCount)
  /\ normalizeNote(last.ret, now + 1, uid(uidCount + 1)).value = last.ret

(* ------------------------------ claims: listings ----------------------- *)
\* updatedAt values compared as the instants they denote.
TimeGeq(a, b) == ~GetTime(a).nan /\ ~GetTime(b).nan /\ GetTime(a).ms >= GetTime(b).ms

\* C12: the sequence listNotes returns is ordered by updatedAt descending,
\* ties broken by title ascending: for positions i < j, updatedAt[i] >=
\* updatedAt[j], and title[i] <= title[j] when the two are equal, for all
\* updatedAt values a note can hold, caller-supplied ones included.
C12_ListOrdered ==
  (last.op = "listNotes" /\ ~last.raised) =>
    \A i, j \in 1..Len(last.ret.v) :
      i < j =>
        LET a == last.ret.v[i]
            b == last.ret.v[j]
        IN /\ TimeGeq(Prop(a, "updatedAt"), Prop(b, "updatedAt"))
           /\ TimeGeq(Prop(b, "updatedAt"), Prop(a, "updatedAt")) =>
                LocaleCompare(Prop(a, "title").v, Prop(b, "title").v) <= 0

\* An option that is supplied: a non-empty string.
Given(x) == x.t = "string" /\ x.v # <<>>

\* The note n satisfies every filter that options supplies.
Wanted(n, options) ==
  /\ Prop(options, "favorites") = Bool(TRUE) => Prop(n, "favorite") = Bool(TRUE)
  /\ Given(Prop(options, "tag")) =>
       \E i \in 1..Len(Prop(n, "tags").v) :
         ToLower(Prop(n, "tags").v[i].v) = ToLower(Trim(Prop(options, "tag").v))
  /\ Given(Prop(options, "query")) =>
       \E k \in {"title", "content"} :
         Includes(ToLower(Prop(n, k).v), ToLower(Trim(Prop(options, "query").v)))

\* The number of positions of the sequence s that hold x.
Occurrences(s, x) == Cardinality({i \in 1..Len(s) : s[i] = x})

\* C13: listNotes(options) returns exactly the notes of the collection that
\* satisfy all supplied filters at once (favorite true when favorites is
\* true, some tag equal to the trimmed tag option without regard to case,
\* title or content containing the trimmed query without regard to case):
\* every matching note is returned as often as the collection holds it, and
\* no other note is returned.
C13_ListExact ==
  last.op = "listNotes" =>
    /\ ~last.raised
    /\ IsArray(last.ret)
    /\ \A i \in 1..Len(Notes(slot)) :
         Occurrences(last.ret.v, Notes(slot)[i]) =
           IF Wanted(Notes(slot)[i], last.arg)
           THEN Occurrences(Notes(slot), Notes(slot)[i]) ELSE 0
    /\ \A i \in 1..Len(last.ret.v) :
         \E j \in 1..Len(Notes(slot)) : Notes(slot)[j] = last.ret.v[i]

\* listNotes with a query returned one of the two notes of the collection:
\* the note returned matches the query in its content only, the other note
\* fails a filter.
C13_Witness ==
  /\ last.op = "listNotes" /\ ~last.raised
  /\ Given(Prop(last.arg, "query"))
  /\ Len(Notes(slot)) = 2
  /\ Len(last.ret.v) = 1
  /\ \E i, j \in 1..2 :
       /\ Wanted(Notes(slot)[i], last.arg)
       /\ ~Includes(ToLower(Prop(Notes(slot)[i], "title").v),
                    ToLower(Trim(Prop(last.arg, "query").v)))
       /\ ~Wanted(Notes(slot)[j], last.arg)

\* The tag values that occur in the notes of the sequence s.
TagValues(s) ==
  UNION {{Prop(s[i], "tags").v[k] : k \in 1..Len(Prop(s[i], "tags").v)} : i \in 1..Len(s)}

\* The number of notes of s whose tags contain the value tag.
NotesWithTag(s, tag) ==
  Cardinality({i \in 1..Len(s) :
                 \E k \in 1..Len(Prop(s[i], "tags").v) : Prop(s[i], "tags").v[k] = tag})

\* C15: listTags returns exactly one { tag, count } entry per distinct tag
\* value that occurs in a note, with count the number of notes whose tags
\* contain the value, the entries in ascending tag order (the order of
\* localeCompare).
C15_TagCounts ==
  last.op = "listTags" =>
    /\ ~last.raised
    /\ IsArray(last.ret)
    /\ {Prop(last.ret.v[i], "tag") : i \in 1..Len(last.ret.v)} = TagValues(Notes(slot))
    /\ \A i \in 1..Len(last.ret.v) :
         /\ DOMAIN last.ret.v[i].v = {"tag", "count"}
         /\ Prop(last.ret.v[i], "count") =
              Num(NotesWithTag(Notes(slot), Prop(last.ret.v[i], "tag")))
    /\ \A i, j \in 1..Len(last.ret.v) :
         i < j => LocaleCompare(Prop(last.ret.v[i], "tag").v,
                                Prop(last.ret.v[j], "tag").v) < 0

\* listTags has answered on two notes that share a tag: that tag counts
\* two, and the entries are not in the order the notes hold the tags.
C15_Witness ==
  /\ last.op = "listTags" /\ ~last.raised
  /\ Len(Notes(slot)) = 2
  /\ Len(last.ret.v) = 3
  /\ last.ret.v[1] = Obj([tag |-> Str(<<"a">>), count |-> Num(2)])
  /\ Prop(last.ret.v[2], "tag") = Str(<<"A">>)
  /\ Prop(Notes(slot)[1], "tags").v[1] = Str(<<"b">>)

(* ------------------------------ claims: edits -------------------------- *)
\* C14: toggleFavorite(id) on a note of the collection returns and persists
\* that note with favorite negated and with id, title, content, tags and
\* createdAt as they were; every other note of the collection is as it was.
C14_ToggleFrame ==
  [][ ( /\ last'.op = "toggleFavorite"
        /\ FindIndex(Notes(slot), last'.id, 1) > 0 )
        => LET idx == FindIndex(Notes(slot), last'.id, 1)
               before == Notes(slot)[idx]
           IN /\ ~last'.raised
              /\ IsNote(last'.ret)
              /\ Len(Notes(slot')) = Len(Notes(slot))
              /\ Notes(slot')[idx] = last'.ret
              /\ Prop(last'.ret, "favorite") = Bool(Prop(before, "favorite") # Bool(TRUE))
              /\ \A k \in {"id", "title", "content", "tags", "createdAt"} :
                   Prop(last'.ret, k) = Prop(before, k)
              /\ \A j \in 1..Len(Notes(slot)) :
                   j # idx => Notes(slot')[j] = Notes(slot)[j]
    ]_vars

\* toggleFavorite has cleared the favorite of the second of two notes, a
\* note with a title, while the first note has another id.
C14_Witness ==
  /\ last.op = "toggleFavorite"
  /\ IsNote(last.ret)
  /\ Len(Notes(slot)) = 2
  /\ Notes(slot)[2] = last.ret
  /\ Prop(Notes(slot)[1], "id") # last.id
  /\ Prop(last.ret, "favorite") = Bool(FALSE)
  /\ Prop(last.ret, "title") = Str(<<"a">>)
  /\ Prop(last.ret, "tags") = Arr(<<Str(<<"a">>)>>)

\* The notes of s whose id is not id, in their order.
Others(s, id) ==
  LET differs(n) == Prop(n, "id") # id
  IN SelectSeq(s, differs)

\* C16: deleteNote(id) returns true exactly when a note with that id was
\* in the collection before the call, removes no note whose id differs
\* from id, and leaves every remaining note as it was in all fields.
C16_DeleteFrame ==
  [][ last'.op = "deleteNote"
        => /\ ~last'.raised
           /\ last'.ret = Bool(\E i \in 1..Len(Notes(slot)) :
                                 Prop(Notes(slot)[i], "id") = last'.id)
           /\ Others(Notes(slot'), last'.id) = Others(Notes(slot), last'.id)
           /\ \A i \in 1..Len(Notes(slot')) :
                \E j \in 1..Len(Notes(slot)) : Notes(slot')[i] = Notes(slot)[j]
    ]_vars

\* deleteNote has answered true and a note with a title, tags and another
\* id is still in the collection.
C16_Witness ==
  /\ last.op = "deleteNote"
  /\ last.ret = Bool(TRUE)
  /\ Len(Notes(slot)) = 1
  /\ Prop(Notes(slot)[1], "id") # last.id
  /\ Prop(Notes(slot)[1], "title") = Str(<<"B">>)
  /\ Len(Prop(Notes(slot)[1], "tags").v) = 3

(* ------------------------------ claims: round trips -------------------- *)
\* The slot holds the serialization of { notes: [...] } and nothing else.
WellFormed(raw) == ~Malformed(raw) /\ DOMAIN raw.v.v = {"notes"}

\* C17: from the empty slot, the envelope that load reads back holds
\* exactly the notes the createNote calls returned, each equal field by
\* field: every createNote adds the note it returns and keeps the others,
\* readStore returns the notes of the slot, and writing back an envelope
\* just read leaves a well-formed slot as it is.
C17_RoundTrip ==
  [][ now' = now =>
      /\ last'.op = "createNote"
          => /\ ~last'.raised
             /\ IsNote(last'.ret)
             /\ Len(Notes(slot')) = Len(Notes(slot)) + 1
             /\ \A x \in {last'.ret} \cup {Notes(slot)[i] : i \in 1..Len(Notes(slot))} :
                  Occurrences(Notes(slot'), x) =
                    Occurrences(Notes(slot), x) + (IF x = last'.ret THEN 1 ELSE 0)
             /\ \A k \in DOMAIN last'.ret.v :
                  Prop(Notes(slot')[Len(Notes(slot'))], k) = Prop(last'.ret, k)
      /\ last'.op = "readStore"
          => /\ ~last'.raised
             /\ slot' = slot
             /\ WellFormed(slot) => JSONStringify(last'.ret) = slot
      /\ last'.op = "writeStore"
          => /\ ~last'.raised
             /\ WellFormed(slot) => slot' = slot
             /\ readStore(slot') = readStore(slot)
    ]_vars

\* An envelope of two notes, one with a title and tags that createNote
\* normalized, has been written back after it was read.
C17_Witness ==
  /\ last.op = "writeStore"
  /\ WellFormed(slot)
  /\ Len(Notes(slot)) = 2
  /\ last.arg = Obj([notes |-> Arr(Notes(slot))])
  /\ \E i \in 1..2 : Len(Prop(Notes(slot)[i], "tags").v) = 3
  /\ Prop(Notes(slot)[1], "updatedAt") # Prop(Notes(slot)[2], "updatedAt")

(* ------------------------------ claims: debounce ----------------------- *)
\* The pending timeouts of the closure for fn.
PendingFn == {p \in timers.pending : p.fn = "fn"}

\* C20: the function debounce(fn, wait) returns invokes fn only after wait
\* ms have passed with no further call: for a burst of calls, each less
\* than wait ms after the one before, fn is invoked exactly once, after the
\* last call, with the arguments of the last call. In terms of burst: an
\* invocation of fn comes directly after a call, has its arguments, is at
\* least wait ms later, and is the last event; and one timeout is pending
\* while the last call is unanswered, none after fn has run.
C20_Debounce ==
  /\ \A k \in 1..Len(burst) :
       burst[k].ev = "fn" =>
         /\ k = Len(burst)
         /\ k > 1
         /\ burst[k - 1].ev = "call"
         /\ burst[k - 1].args = burst[k].args
         /\ (burst[k].at - burst[k - 1].at) * DefaultWait >= timers.wait["fn"]
  /\ IF burst # <<>> /\ burst[Len(burst)].ev = "call"
     THEN PendingFn = {[id |-> timers.t["fn"], fn |-> "fn",
                        args |-> burst[Len(burst)].args,
                        due |-> burst[Len(burst)].at + Ticks(timers.wait["fn"])]}
     ELSE PendingFn = {}

\* Two calls with different arguments, the second less than wait ms after
\* the first, and then fn with the arguments of the second.
C20_Witness ==
  /\ Len(burst) = 3
  /\ burst[1].ev = "call" /\ burst[2].ev = "call" /\ burst[3].ev = "fn"
  /\ burst[1].args # burst[2].args
  /\ burst[2].at > burst[1].at
  /\ (burst[2].at - burst[1].at) * DefaultWait < timers.wait["fn"]
  /\ burst[3].args = burst[2].args

(* ------------------------------ claims: the editor --------------------- *)
\* A step in which the debounced handler op runs.
TimerStep(op) ==
  /\ now' = now
  /\ last'.op = op
  /\ timers'.pending # timers.pending

\* C18: a title or content edit typed while note A is selected is persisted
\* to note A by the debounced input handler, whatever the user selects
\* before the timer fires: when the handler runs for an input made with A
\* selected and A is in the collection, A holds the typed title (trimmed),
\* or the typed content, after it.
C18_EditReachesNote ==
  [][ /\ TimerStep("titleTimer")
          => LET e == last'.arg
             IN (Truthy(e.selectedId) /\ FindIndex(Notes(slot), e.selectedId, 1) > 0)
                  => Prop(Target(slot', e.selectedId), "title") = Str(Trim(e.value.v))
      /\ TimerStep("contentTimer")
          => LET e == last'.arg
             IN (Truthy(e.selectedId) /\ FindIndex(Notes(slot), e.selectedId, 1) > 0)
                  => Prop(Target(slot', e.selectedId), "content") = e.value
    ]_vars

\* C19: selecting a note for viewing (a click on a note of the list, and
\* the renderEditor call that refresh makes, here on a click on the All
\* filter) changes nothing in the persisted collection.
C19_SelectionReadsOnly ==
  [][ (now' = now /\ last'.op \in {"noteClick", "filterAllClick"})
        => Notes(slot') = Notes(slot)
    ]_vars

(* ------------------------------ claims: the selection ------------------ *)
\* The handlers that call updateNote or toggleFavorite with the selection
\* they found when they started (last.id).
StoreCallers == {"titleTimer", "contentTimer", "favClick", "tagEnter", "tagRemove"}

\* id is the id of a note of the collection in the slot.
InCollection(id) == FindIndex(Notes(slot), id, 1) > 0

\* C21: after every completed handler of initApp state.selectedId is null
\* or the id of a note of the persisted collection, and the selection a
\* handler used for its updateNote or toggleFavorite call is the id of a
\* note of the collection (these calls delete nothing, so the note is there
\* before the call exactly when it is there after it).
C21_SelectedExists ==
  /\ state.selectedId = Null \/ InCollection(state.selectedId)
  /\ (last.op \in StoreCallers /\ Truthy(last.id)) => InCollection(last.id)

\* A note was deleted while a debounced edit was waiting, another note of
\* the collection is selected now, and the edit is still to run.
C21_Witness ==
  /\ last.op = "deleteClick"
  /\ state.selectedId # Null
  /\ InCollection(state.selectedId)
  /\ state.selectedId # last.id
  /\ \E p \in timers.pending : p.fn = "title"

====
